---- MODULE Spec2Model ----
(***************************************************************************)
(* Model of lib/core/patch.py: the deterministic generator installed by    *)
(* unisonRandom() (_lcg, _randint, _choice, _sample, _seed over the global *)
(* _rand) and the "reversible" decode-error handler installed by           *)
(* dirtyPatches() (_reversible).                                           *)
(*                                                                         *)
(* Python values are modelled as follows.  Integers are TLC integers; a    *)
(* list is a sequence (Python index i is TLA+ index i + 1); text is the    *)
(* sequence of its code points; a call of the generator returns a record   *)
(* [rand, ret, err, n]: the register after the call, the returned value as *)
(* a sequence (<<v>> for an integer or element v, the list itself for a    *)
(* list, <<>> for None or when an exception left no value), the name of    *)
(* the exception raised ("none" when the call returned) and the number of  *)
(* times the call ran _lcg().                                              *)
(***************************************************************************)
EXTENDS Integers, Sequences, FiniteSets, TLC

VARIABLES
    rand,      \* the module global _rand
    steps,     \* recurrence steps run since the last _seed (history)
    last,      \* the last generator call: its arguments, the register before, its result
    runs,      \* two processes, each with its own _rand and the results it got since the reseed
    phase,     \* "history": the two processes run on their own; "replay": both make the same calls
    nops,      \* calls made so far by each process ("history"), or by both ("replay")
    INVALID_UNICODE_PRIVATE_AREA,  \* the settings flag read by _reversible, as the repr of its value
    ex,        \* the UnicodeDecodeError at hand: [object, start, end]
    out,       \* what _reversible returned for ex: [text, pos, err]
    back,      \* the bytes recovered from out.text
    cpc,       \* "idle", "raised" (ex is pending), "handled" (out is set), "decoded" (back is set)
    useLock,   \* whether the callers wrap each draw in one mutual-exclusion section
    lock,      \* the thread inside the section, 0 when it is free
    pc,        \* each thread's position in its draw
    tmp,       \* each thread's value of _rand as loaded for a * _rand + c
    rets,      \* the values _lcg() returned in this round, in the order of return
    left,      \* draws each thread still has to make in this round
    seeded,    \* the register the round started from
    lostSeen   \* an earlier round without the section ended with an update lost (history)

genVars == <<rand, steps, last>>
pairVars == <<runs, phase, nops>>
codecVars == <<INVALID_UNICODE_PRIVATE_AREA, ex, out, back, cpc>>
thrVars == <<useLock, lock, pc, tmp, rets, left, seeded, lostSeen>>
vars == <<genVars, pairVars, codecVars, thrVars>>

(***************************************************************************)
(* Bounds of the model.                                                    *)
(***************************************************************************)
MaxSteps == 3      \* a call is made only while fewer steps have run since the last seed
MaxK == 3          \* largest k passed to sample
MaxHistory == 2    \* calls each process makes on its own before the common reseed
MaxReplay == 3     \* calls both processes make after the common reseed
MaxObject == 2     \* longest byte string handed to the decoder
DrawsPerThread == 2  \* draws each thread makes in a round

(***************************************************************************)
(* Python arithmetic.                                                      *)
(***************************************************************************)

\* x % n of Python for n # 0: the result takes the sign of the divisor.
PyMod(x, n) == IF n > 0 THEN x % n ELSE -((-x) % (-n))

\* The constants of _lcg.
lcg_a == 1140671485
lcg_c == 128201163
lcg_m == 2 ^ 24

\* (x * y) % lcg_m on Python's unbounded integers.  The product of two
\* 24-bit residues does not fit TLC's 32-bit integers, so it is formed from
\* 12-bit limbs; the high-by-high partial product is a multiple of 2^24 and
\* contributes nothing to the residue.
Limb == 2 ^ 12
MulModM(x, y) ==
    LET xr == x % lcg_m
        yr == y % lcg_m
        xh == xr \div Limb
        xl == xr % Limb
        yh == yr \div Limb
        yl == yr % Limb
    IN  (xl * yl + Limb * ((xh * yl + xl * yh) % Limb)) % lcg_m

(***************************************************************************)
(* unisonRandom: the generator.  Each operator takes the register r the    *)
(* call finds in _rand and returns the register it leaves there.           *)
(***************************************************************************)

\* The recurrence with the final reduction left out.
_lcg_unreduced(r) == MulModM(lcg_a, r) + lcg_c

\* _lcg(): _rand = (a * _rand + c) % m; return _rand
_lcg(r) == (MulModM(lcg_a, r) + lcg_c) % lcg_m

\* n recurrence steps from register r.
RECURSIVE LcgN(_, _)
LcgN(r, n) == IF n = 0 THEN r ELSE LcgN(_lcg(r), n - 1)

\* The range taken one short: a + (_lcg() % (b - a)).
_randint_short(r, a, b) ==
    LET r2 == _lcg(r)
        n == b - a
    IN  IF n = 0
        THEN [rand |-> r2, ret |-> <<>>, err |-> "ZeroDivisionError", n |-> 1]
        ELSE [rand |-> r2, ret |-> <<a + PyMod(r2, n)>>, err |-> "none", n |-> 1]

\* _randint(a, b): a + (_lcg() % (b - a + 1)).  _lcg() is evaluated before
\* the modulus, so a zero modulus raises after the register has advanced.
_randint(r, a, b) ==
    LET r2 == _lcg(r)
        n == b - a + 1
    IN  IF n = 0
        THEN [rand |-> r2, ret |-> <<>>, err |-> "ZeroDivisionError", n |-> 1]
        ELSE [rand |-> r2, ret |-> <<a + PyMod(r2, n)>>, err |-> "none", n |-> 1]

\* seq[i] of Python: negative indices count from the end.
PyIndex(seq, i) ==
    IF i >= 0 /\ i < Len(seq) THEN <<seq[i + 1]>>
    ELSE IF i < 0 /\ -i <= Len(seq) THEN <<seq[Len(seq) + i + 1]>>
    ELSE <<>>

\* _choice(seq): seq[_randint(0, len(seq) - 1)]
_choice(r, seq) ==
    LET d == _randint(r, 0, Len(seq) - 1)
    IN  IF d.err # "none" THEN d
        ELSE IF PyIndex(seq, d.ret[1]) = <<>>
             THEN [rand |-> d.rand, ret |-> <<>>, err |-> "IndexError", n |-> d.n]
             ELSE [rand |-> d.rand, ret |-> PyIndex(seq, d.ret[1]), err |-> "none", n |-> d.n]

\* The list comprehension of _sample after `done` elements: the first
\* failing _choice propagates and the partial list is dropped.
RECURSIVE SampleLoop(_, _, _, _)
SampleLoop(r, population, k, done) ==
    IF Len(done) >= k THEN [rand |-> r, ret |-> done, err |-> "none", n |-> Len(done)]
    ELSE LET d == _choice(r, population)
         IN  IF d.err # "none" THEN [d EXCEPT !.n = Len(done) + d.n]
             ELSE SampleLoop(d.rand, population, k, done \o d.ret)

\* A conventional sample: each chosen element is removed from the population.
RECURSIVE SampleNoRepeat(_, _, _, _)
SampleNoRepeat(r, population, k, done) ==
    IF Len(done) >= k THEN [rand |-> r, ret |-> done, err |-> "none", n |-> Len(done)]
    ELSE LET d == _randint(r, 0, Len(population) - 1)
         IN  IF d.err # "none" THEN [d EXCEPT !.n = Len(done) + d.n]
             ELSE LET i == d.ret[1] + 1
                      rest == [j \in 1..(Len(population) - 1) |->
                                 IF j < i THEN population[j] ELSE population[j + 1]]
                  IN  SampleNoRepeat(d.rand, rest, k, Append(done, population[i]))

_sample_without_replacement(r, population, k) == SampleNoRepeat(r, population, k, <<>>)

\* _sample(population, k): [_choice(population) for _ in xrange(k)]
_sample(r, population, k) == SampleLoop(r, population, k, <<>>)

\* A seed folded into the register instead of replacing it: _rand += seed.
_seed_added(r, seed) == [rand |-> r + seed, ret |-> <<>>, err |-> "none", n |-> 0]

\* _seed(seed): _rand = seed
_seed(r, seed) == [rand |-> seed, ret |-> <<>>, err |-> "none", n |-> 0]


(***************************************************************************)
(* dirtyPatches: the "reversible" decode-error handler.                    *)
(***************************************************************************)

\* The lower-case hexadecimal digit of d in 0..15, as a code point.
HexChar(d) == IF d < 10 THEN 48 + d ELSE 87 + d

\* The hexadecimal digits of v >= 0 without leading zeros (%x).
RECURSIVE HexDigits(_)
HexDigits(v) == IF v < 16 THEN <<HexChar(v)>> ELSE Append(HexDigits(v \div 16), HexChar(v % 16))

\* s right-justified in a field of `width` filled with the code point `fill`.
RECURSIVE Pad(_, _, _)
Pad(s, width, fill) == IF Len(s) >= width THEN s ELSE Pad(<<fill>> \o s, width, fill)

\* '%02x' % v: the field is filled with zeros.
Format02x(v) == Pad(HexDigits(v), 2, 48)

\* '%2x' % v: the field is filled with spaces.
Format2x(v) == Pad(HexDigits(v), 2, 32)

\* '000f00%2x' % v
PrivateAreaLiteral(v) == <<48, 48, 48, 102, 48, 48>> \o Format2x(v)

\* The value of a hexadecimal digit given as a code point, -1 for any other.
HexValue(ch) ==
    IF ch >= 48 /\ ch <= 57 THEN ch - 48
    ELSE IF ch >= 97 /\ ch <= 102 THEN ch - 87
    ELSE IF ch >= 65 /\ ch <= 70 THEN ch - 55
    ELSE -1

IsSpace(ch) == ch \in {32, 9, 10, 11, 12, 13}

RECURSIVE Strip(_)
Strip(s) ==
    IF s = <<>> THEN s
    ELSE IF IsSpace(Head(s)) THEN Strip(Tail(s))
    ELSE IF IsSpace(s[Len(s)]) THEN Strip(SubSeq(s, 1, Len(s) - 1))
    ELSE s

RECURSIVE HexNumber(_)
HexNumber(s) == IF s = <<>> THEN 0 ELSE 16 * HexNumber(SubSeq(s, 1, Len(s) - 1)) + HexValue(s[Len(s)])

\* int(s, 16) for an unsigned, unprefixed literal: surrounding white space is
\* skipped, and what remains must be hexadecimal digits, or ValueError is
\* raised (err); <<n>> is the value.
PyInt16(s) ==
    LET t == Strip(s)
    IN  IF t = <<>> \/ \E i \in 1..Len(t) : HexValue(t[i]) = -1
        THEN [val |-> <<>>, err |-> "ValueError"]
        ELSE [val |-> <<HexNumber(t)>>, err |-> "none"]

\* _unichr(int('000f00%2x' % v, 16)): the text of one code point.
PrivateAreaChar(v) ==
    LET n == PyInt16(PrivateAreaLiteral(v))
    IN  IF n.err # "none" THEN [text |-> <<>>, err |-> n.err]
        ELSE [text |-> n.val, err |-> "none"]

\* INVALID_UNICODE_CHAR_FORMAT % v: a backslash, an x and two hexadecimal digits of v.
INVALID_UNICODE_CHAR_FORMAT(v) == [text |-> <<92, 120>> \o Format02x(v), err |-> "none"]

\* u"".join(units): the texts of the units in order; the first unit that
\* raised ends the join with its exception.
RECURSIVE Join(_)
Join(units) ==
    IF units = <<>> THEN [text |-> <<>>, err |-> "none"]
    ELSE IF Head(units).err # "none" THEN [text |-> <<>>, err |-> Head(units).err]
    ELSE LET rest == Join(Tail(units))
         IN  IF rest.err # "none" THEN rest
             ELSE [text |-> Head(units).text \o rest.text, err |-> "none"]

\* The text of the PrivateArea branch for `bytes`.
PrivateAreaText(bytes) == Join([i \in 1..Len(bytes) |-> PrivateAreaChar(bytes[i])])

\* The text of the other branch for `bytes`.
CharFormatText(bytes) == Join([i \in 1..Len(bytes) |-> INVALID_UNICODE_CHAR_FORMAT(bytes[i])])

\* ex.object[ex.start:ex.end]; an element is an int, or a one-character str
\* turned into one by ord(): the byte's value either way.
Span(e) == SubSeq(e.object, e.start + 1, e.end)

\* The truth value Python's `if` gives the flag.
Truthy(value) == value \notin {"False", "None", "0", "''"}

\* A handler that accepts only the two booleans.
_reversible_strict(flag, e) ==
    IF flag = "True"
    THEN [text |-> PrivateAreaText(Span(e)).text, pos |-> e.end,
          err |-> PrivateAreaText(Span(e)).err]
    ELSE IF flag = "False"
    THEN [text |-> CharFormatText(Span(e)).text, pos |-> e.end,
          err |-> CharFormatText(Span(e)).err]
    ELSE [text |-> <<>>, pos |-> -1, err |-> "UnsupportedModeError"]

\* _reversible(ex): (text, ex.end), the text built in the branch the flag
\* selects; an exception raised while the text is built leaves no return
\* value (text <<>>, pos -1).
_reversible(flag, e) ==
    LET j == IF Truthy(flag) THEN PrivateAreaText(Span(e))
             ELSE CharFormatText(Span(e))
    IN  IF j.err # "none" THEN [text |-> <<>>, pos |-> -1, err |-> j.err]
        ELSE [text |-> j.text, pos |-> e.end, err |-> "none"]

(***************************************************************************)
(* The inverse of the handler's text: a decoded item is a recovered byte   *)
(* or a code point passed through unchanged.                               *)
(***************************************************************************)
PrivateAreaBase == 983040    \* 0x0F0000

Byte(v) == [kind |-> "byte", v |-> v]
Passed(p) == [kind |-> "text", v |-> p]

DecodePrivateArea(text) ==
    [i \in 1..Len(text) |->
        IF text[i] >= PrivateAreaBase /\ text[i] < PrivateAreaBase + 256
        THEN Byte(text[i] - PrivateAreaBase)
        ELSE Passed(text[i])]

IsEscapeAt(text) ==
    /\ Len(text) >= 4
    /\ text[1] = 92 /\ text[2] = 120
    /\ HexValue(text[3]) # -1 /\ HexValue(text[4]) # -1

RECURSIVE DecodeTextualEscape(_)
DecodeTextualEscape(text) ==
    IF text = <<>> THEN <<>>
    ELSE IF IsEscapeAt(text)
         THEN <<Byte(16 * HexValue(text[3]) + HexValue(text[4]))>>
              \o DecodeTextualEscape(SubSeq(text, 5, Len(text)))
         ELSE <<Passed(Head(text))>> \o DecodeTextualEscape(Tail(text))

Decode(flag, text) ==
    IF Truthy(flag) THEN DecodePrivateArea(text) ELSE DecodeTextualEscape(text)

(***************************************************************************)
(* Spec: one caller of the installed generator.                            *)
(***************************************************************************)
SeedValues == {0, 5, lcg_m, lcg_m + 5, -1}
RangePairs == {<<0, lcg_m - 1>>, <<3, 3>>, <<1, 6>>, <<-3, 2>>,
               <<5, 4>>, <<5, 2>>, <<0, -7>>}
Lists == {<<>>, <<7>>, <<10, 20>>, <<10, 20, 30>>}

NoCall == [op |-> "none", x |-> 0, y |-> 0, seq |-> <<>>, pre |-> 0,
           ret |-> <<>>, err |-> "none", n |-> 0]

Call(op, x, y, seq, d) ==
    [op |-> op, x |-> x, y |-> y, seq |-> seq, pre |-> rand,
     ret |-> d.ret, err |-> d.err, n |-> d.n]

GenInit ==
    /\ rand = 0
    /\ steps = 0
    /\ last = NoCall

PairIdle ==
    /\ runs = [i \in 1..2 |-> [rand |-> 0, log |-> <<>>]]
    /\ phase = "off"
    /\ nops = <<0, 0>>

CodecIdle ==
    /\ INVALID_UNICODE_PRIVATE_AREA = "False"
    /\ ex = [object |-> <<>>, start |-> 0, end |-> 0]
    /\ out = [text |-> <<>>, pos |-> 0, err |-> "none"]
    /\ back = <<>>
    /\ cpc = "idle"

Threads == {1, 2}

ThreadsIdle ==
    /\ useLock = FALSE
    /\ lock = 0
    /\ pc = [t \in Threads |-> "idle"]
    /\ tmp = [t \in Threads |-> 0]
    /\ rets = <<>>
    /\ left = [t \in Threads |-> 0]
    /\ seeded = 0
    /\ lostSeen = FALSE

Init ==
    /\ GenInit
    /\ PairIdle
    /\ CodecIdle
    /\ ThreadsIdle

Seed(value) ==
    LET d == _seed(rand, value)
    IN  /\ rand' = d.rand
        /\ steps' = 0
        /\ last' = Call("seed", value, 0, <<>>, d)
        /\ UNCHANGED <<pairVars, codecVars, thrVars>>

Randint(a, b) ==
    LET d == _randint(rand, a, b)
    IN  /\ steps < MaxSteps
        /\ rand' = d.rand
        /\ steps' = steps + d.n
        /\ last' = Call("randint", a, b, <<>>, d)
        /\ UNCHANGED <<pairVars, codecVars, thrVars>>

Choice(seq) ==
    LET d == _choice(rand, seq)
    IN  /\ steps < MaxSteps
        /\ rand' = d.rand
        /\ steps' = steps + d.n
        /\ last' = Call("choice", 0, 0, seq, d)
        /\ UNCHANGED <<pairVars, codecVars, thrVars>>

Sample(population, k) ==
    LET d == _sample(rand, population, k)
    IN  /\ steps < MaxSteps
        /\ rand' = d.rand
        /\ steps' = steps + d.n
        /\ last' = Call("sample", k, 0, population, d)
        /\ UNCHANGED <<pairVars, codecVars, thrVars>>

Next ==
    \/ \E value \in SeedValues : Seed(value)
    \/ \E p \in RangePairs : Randint(p[1], p[2])
    \/ \E seq \in Lists : Choice(seq)
    \/ \E population \in Lists, k \in 0..MaxK : Sample(population, k)

Spec == Init /\ [][Next]_vars

(***************************************************************************)
(* SpecPair: two processes that have each installed the generator.  Each   *)
(* first makes calls of its own choosing (its history); then both call     *)
(* seed(s) with one s and go on to make the same calls with the same       *)
(* arguments.  runs[i].log holds what process i was handed since the       *)
(* reseed; runs[i].apart records whether the registers differed when the   *)
(* reseed came.                                                            *)
(***************************************************************************)
PairSeeds == {0, lcg_m + 5}
PairRanges == {<<0, lcg_m - 1>>, <<1, 6>>, <<5, 4>>}
PairLists == {<<>>, <<10, 20, 30>>}
PairKs == {0, 2}

PairInit ==
    /\ GenInit
    /\ CodecIdle
    /\ ThreadsIdle
    /\ runs = [i \in 1..2 |-> [rand |-> 0, log |-> <<>>]]
    /\ phase = "history"
    /\ nops = <<0, 0>>

\* Process i makes a call of its own: d is the call's result on its register.
Own(i, d) ==
    /\ phase = "history"
    /\ nops[i] < MaxHistory
    /\ runs' = [runs EXCEPT ![i].rand = d.rand]
    /\ nops' = [nops EXCEPT ![i] = @ + 1]
    /\ UNCHANGED <<phase, genVars, codecVars, thrVars>>

OwnSeed(i, value) == Own(i, _seed(runs[i].rand, value))
OwnRandint(i, a, b) == Own(i, _randint(runs[i].rand, a, b))
OwnChoice(i, seq) == Own(i, _choice(runs[i].rand, seq))
OwnSample(i, population, k) == Own(i, _sample(runs[i].rand, population, k))

\* Both processes call seed(value).
Reseed(value) ==
    /\ phase = "history"
    /\ runs' = [i \in 1..2 |-> [rand |-> _seed(runs[i].rand, value).rand, log |-> <<>>]]
    /\ phase' = IF runs[1].rand # runs[2].rand THEN "replay-apart" ELSE "replay"
    /\ nops' = <<0, 0>>
    /\ UNCHANGED <<genVars, codecVars, thrVars>>

InReplay == phase \in {"replay", "replay-apart"}

\* Both processes make the same call: d1 and d2 are the call's results on
\* the register of process 1 and of process 2.
Both(d1, d2) ==
    /\ InReplay
    /\ nops[1] < MaxReplay
    /\ runs' = <<[rand |-> d1.rand, log |-> Append(runs[1].log, [ret |-> d1.ret, err |-> d1.err])],
                 [rand |-> d2.rand, log |-> Append(runs[2].log, [ret |-> d2.ret, err |-> d2.err])]>>
    /\ nops' = <<nops[1] + 1, nops[2] + 1>>
    /\ UNCHANGED <<phase, genVars, codecVars, thrVars>>

BothRandint(a, b) == Both(_randint(runs[1].rand, a, b), _randint(runs[2].rand, a, b))
BothChoice(seq) == Both(_choice(runs[1].rand, seq), _choice(runs[2].rand, seq))
BothSample(population, k) ==
    Both(_sample(runs[1].rand, population, k), _sample(runs[2].rand, population, k))

PairNext ==
    \/ \E i \in 1..2, value \in PairSeeds : OwnSeed(i, value)
    \/ \E i \in 1..2, p \in PairRanges : OwnRandint(i, p[1], p[2])
    \/ \E i \in 1..2, seq \in PairLists : OwnChoice(i, seq)
    \/ \E i \in 1..2, population \in PairLists, k \in PairKs : OwnSample(i, population, k)
    \/ \E value \in PairSeeds : Reseed(value)
    \/ \E p \in PairRanges : BothRandint(p[1], p[2])
    \/ \E seq \in PairLists : BothChoice(seq)
    \/ \E population \in PairLists, k \in PairKs : BothSample(population, k)

SpecPair == PairInit /\ [][PairNext]_vars

\* C3: after seed(s), the same calls with the same arguments hand out the same
\* results and leave the same register, whatever each process did before.
C3_ReseedDeterminism ==
    InReplay =>
        /\ runs[1].log = runs[2].log
        /\ runs[1].rand = runs[2].rand

C3_Witness ==
    /\ phase = "replay-apart"
    /\ Len(runs[1].log) = MaxReplay
    /\ \E i \in 1..MaxReplay : runs[1].log[i].err = "none" /\ runs[1].log[i].ret # <<>>
    /\ runs[1].log = runs[2].log

(***************************************************************************)
(* Properties of the generator, checked under Spec.                        *)
(***************************************************************************)

InDomain(r) == r >= 0 /\ r < lcg_m

\* Successors under the recurrence, computed with unbounded integers outside
\* the model: (1140671485 * r + 128201163) mod 16777216.
RefStep ==
    [r \in {0, 5, lcg_m, lcg_m + 5, -1, lcg_m - 1, 10760651, 9864636, 10939854} |->
        CASE r = 0 -> 10760651
          [] r = lcg_m -> 10760651
          [] r = 5 -> 9864636
          [] r = lcg_m + 5 -> 9864636
          [] r = -1 -> 10939854
          [] r = lcg_m - 1 -> 10939854
          [] r = 10760651 -> 9472106
          [] r = 9864636 -> 3313815
          [] r = 10939854 -> 7348321]

\* C1 as stated: the register lies in [0, 2^24) in every reachable state, and
\* immediately after seed(value) it equals value mod 2^24.
C1_RegisterAlwaysReduced ==
    /\ InDomain(rand)
    /\ last.op = "seed" => rand = last.x % lcg_m

\* C1 amended: the register lies in [0, 2^24) initially and whenever at least
\* one recurrence step has run since the last seed; immediately after
\* seed(value) it holds value itself, unreduced, and the next recurrence step
\* yields the register it would yield from value mod 2^24.
C1_ReducedAfterDraw ==
    /\ (last.op = "none" \/ steps > 0) => InDomain(rand)
    /\ last.op = "seed" =>
          /\ rand = last.x
          /\ _lcg(rand) = RefStep[last.x % lcg_m]
          /\ InDomain(_lcg(rand))

C1_Witness ==
    /\ last.op = "randint" /\ last.err = "none"
    /\ last.pre = lcg_m + 5
    /\ rand = 9864636

\* C2: nextInRange(a, b) with a <= b runs the recurrence exactly once and
\* returns a + (register' mod (b - a + 1)), a value of [a, b]; from register
\* 0, nextInRange(0, 16777215) returns 10760651.
C2_RandintContract ==
    (last.op = "randint" /\ last.x <= last.y) =>
        /\ last.err = "none"
        /\ last.n = 1
        /\ rand = LcgN(last.pre, 1)
        /\ (last.pre \in DOMAIN RefStep => rand = RefStep[last.pre])
        /\ last.ret = <<last.x + (rand % (last.y - last.x + 1))>>
        /\ last.x <= last.ret[1] /\ last.ret[1] <= last.y
        /\ (last.pre = 0 /\ last.x = 0 /\ last.y = 16777215) => last.ret = <<10760651>>

C2_Witness ==
    /\ last.op = "randint" /\ last.pre = 0
    /\ last.x = 0 /\ last.y = 16777215
    /\ last.ret = <<10760651>>

\* C4: nextInRange(a, b) with b < a fails (with a range-order error; here,
\* with any error) and returns no value.
C4_RangeOrderError ==
    (last.op = "randint" /\ last.y < last.x) =>
        /\ last.err # "none"
        /\ last.ret = <<>>

\* C5: a generator call that fails leaves the register as it found it.
C5_NoPartialSuccess ==
    last.err # "none" => rand = last.pre

\* C6: sample(P, k) on a non-empty P returns exactly k elements, the i-th
\* being P[register after the i-th step mod len(P)], and leaves the register
\* k recurrence steps on.
C6_SampleShape ==
    (last.op = "sample" /\ last.seq # <<>>) =>
        /\ last.err = "none"
        /\ Len(last.ret) = last.x
        /\ \A i \in 1..last.x :
              /\ last.ret[i] = last.seq[1 + (LcgN(last.pre, i) % Len(last.seq))]
              /\ \E j \in 1..Len(last.seq) : last.ret[i] = last.seq[j]
        /\ rand = LcgN(last.pre, last.x)
        /\ last.n = last.x

C6_Witness ==
    /\ last.op = "sample" /\ last.err = "none"
    /\ last.seq = <<10, 20>> /\ last.x = 3
    /\ Len(last.ret) = 3
    /\ \E i, j \in 1..3 : i # j /\ last.ret[i] = last.ret[j]
    /\ rand = LcgN(last.pre, 3) /\ rand # last.pre

(***************************************************************************)
(* SpecCodec: a decoder that meets undecodable bytes obj[start:end] calls  *)
(* the handler registered as "reversible", and the text it returned is     *)
(* later turned back into bytes.  The flag is fixed when the process       *)
(* starts.                                                                 *)
(***************************************************************************)
Flags == {"True", "False", "None", "0", "2", "'private'"}
ByteValues == {0, 15, 16, 171, 255}

RECURSIVE ByteStrings(_)
ByteStrings(n) ==
    IF n = 0 THEN {<<>>}
    ELSE ByteStrings(n - 1) \cup
         {Append(b, v) : b \in {x \in ByteStrings(n - 1) : Len(x) = n - 1}, v \in ByteValues}

CodecInit ==
    /\ GenInit
    /\ PairIdle
    /\ ThreadsIdle
    /\ INVALID_UNICODE_PRIVATE_AREA \in Flags
    /\ ex = [object |-> <<>>, start |-> 0, end |-> 0]
    /\ out = [text |-> <<>>, pos |-> 0, err |-> "none"]
    /\ back = <<>>
    /\ cpc = "idle"

\* The decoder fails on object[start:end], a span of at least one byte.
DecodeError(object, start, end) ==
    /\ cpc # "raised"
    /\ start >= 0 /\ start < end /\ end <= Len(object)
    /\ ex' = [object |-> object, start |-> start, end |-> end]
    /\ out' = [text |-> <<>>, pos |-> 0, err |-> "none"]
    /\ back' = <<>>
    /\ cpc' = "raised"
    /\ UNCHANGED <<INVALID_UNICODE_PRIVATE_AREA, genVars, pairVars, thrVars>>

\* The decoder calls the handler with the error.
Reversible ==
    /\ cpc = "raised"
    /\ out' = _reversible(INVALID_UNICODE_PRIVATE_AREA, ex)
    /\ cpc' = "handled"
    /\ UNCHANGED <<INVALID_UNICODE_PRIVATE_AREA, ex, back, genVars, pairVars, thrVars>>

\* The replacement text is turned back into bytes.
DecodeBack ==
    /\ cpc = "handled"
    /\ out.err = "none"
    /\ back' = Decode(INVALID_UNICODE_PRIVATE_AREA, out.text)
    /\ cpc' = "decoded"
    /\ UNCHANGED <<INVALID_UNICODE_PRIVATE_AREA, ex, out, genVars, pairVars, thrVars>>

CodecNext ==
    \/ \E object \in ByteStrings(MaxObject), start, end \in 0..MaxObject :
          DecodeError(object, start, end)
    \/ Reversible
    \/ DecodeBack

SpecCodec == CodecInit /\ [][CodecNext]_vars

Handled == cpc \in {"handled", "decoded"}

\* C7: in PrivateArea mode the handler succeeds for every byte value and
\* emits, for each byte v of the span, the one code point 0x0F0000 + v.
C7_PrivateAreaCodePoints ==
    (Handled /\ INVALID_UNICODE_PRIVATE_AREA = "True") =>
        /\ out.err = "none"
        /\ out.text = [i \in 1..Len(Span(ex)) |-> PrivateAreaBase + Span(ex)[i]]

\* C8: in both modes the handler returns newOffset = end and a text that
\* decodes back to exactly the bytes of the span, in order.
C8_RoundTrip ==
    /\ (Handled /\ INVALID_UNICODE_PRIVATE_AREA \in {"True", "False"}) =>
          /\ out.err = "none"
          /\ out.pos = ex.end
    /\ (cpc = "decoded" /\ INVALID_UNICODE_PRIVATE_AREA \in {"True", "False"}) =>
          back = [i \in 1..Len(Span(ex)) |-> Byte(Span(ex)[i])]

\* C9 as stated: with a flag that is neither of the two recognized values the
\* handler fails (with an unsupported-mode error; here, with any error) and
\* produces no text: it does not fall back to one of the two modes.
C9_UnsupportedModeFails ==
    (Handled /\ INVALID_UNICODE_PRIVATE_AREA \notin {"True", "False"}) =>
        /\ out.err # "none"
        /\ out.text = <<>>

\* C9 amended: the handler never fails with an unsupported-mode error; a flag
\* that is neither True nor False selects a mode by its truth value, a true
\* one (2, 'private') the mode of True and a false one (None, 0) the
\* mode of False, and the handler returns what it returns in that mode.
C9_TruthValueSelectsMode ==
    Handled =>
        /\ out.err # "UnsupportedModeError"
        /\ INVALID_UNICODE_PRIVATE_AREA \in {"None", "0"} =>
              /\ out.err = "none"
              /\ out.pos = ex.end
              /\ out.text = CharFormatText(Span(ex)).text
        /\ INVALID_UNICODE_PRIVATE_AREA \in {"2", "'private'"} =>
              /\ out.err = PrivateAreaText(Span(ex)).err
              /\ out.text = PrivateAreaText(Span(ex)).text
              /\ out.err = "none" => out.pos = ex.end

C9_Witness ==
    /\ cpc = "handled"
    /\ INVALID_UNICODE_PRIVATE_AREA = "None"
    /\ Span(ex) = <<255>>
    /\ out = [text |-> <<92, 120, 102, 102>>, pos |-> ex.end, err |-> "none"]

(***************************************************************************)
(* SpecThreads: threads that draw from the one register.  A draw is a call *)
(* of _lcg(), which the interpreter runs as three steps another thread can *)
(* come between: _rand is loaded for a * _rand + c, the result is stored   *)
(* in _rand, and _rand is loaded again for `return _rand`.  The generator  *)
(* takes no lock; in a round with useLock the callers hold one around each *)
(* draw.  A round starts from a seeded register and ends when every thread *)
(* has made its draws; then another round may start.                       *)
(***************************************************************************)
ThreadSeeds == {0, 5}

\* The stream from each seed, computed with unbounded integers outside the
\* model: x' = (1140671485 * x + 128201163) mod 16777216.
Stream(seed) ==
    IF seed = 0
    THEN <<10760651, 9472106, 15777933, 5268516, 14718303, 9612718,
           286913, 480136, 2512691, 12695602, 11948341, 7623212>>
    ELSE <<9864636, 3313815, 11508742, 16053689, 14644384, 2118635,
           13410826, 2814893, 14043844, 11624831, 16304462, 4754913>>

TotalDraws == Cardinality(Threads) * DrawsPerThread

ThreadInit ==
    /\ rand \in ThreadSeeds
    /\ steps = 0
    /\ last = NoCall
    /\ PairIdle
    /\ CodecIdle
    /\ useLock \in BOOLEAN
    /\ lock = 0
    /\ pc = [t \in Threads |-> "idle"]
    /\ tmp = [t \in Threads |-> 0]
    /\ rets = <<>>
    /\ left = [t \in Threads |-> DrawsPerThread]
    /\ seeded = rand
    /\ lostSeen = FALSE

Others == <<steps, last, pairVars, codecVars>>

\* The caller enters the mutual-exclusion section before its draw.
Acquire(t) ==
    /\ useLock /\ lock = 0
    /\ pc[t] = "idle" /\ left[t] > 0
    /\ lock' = t
    /\ pc' = [pc EXCEPT ![t] = "load"]
    /\ UNCHANGED <<rand, useLock, tmp, rets, left, seeded, lostSeen, Others>>

\* The caller draws with no section around the draw.
Enter(t) ==
    /\ ~useLock
    /\ pc[t] = "idle" /\ left[t] > 0
    /\ pc' = [pc EXCEPT ![t] = "load"]
    /\ UNCHANGED <<rand, useLock, lock, tmp, rets, left, seeded, lostSeen, Others>>

\* _lcg: the load of _rand in (a * _rand + c) % m
LcgLoad(t) ==
    /\ pc[t] = "load"
    /\ tmp' = [tmp EXCEPT ![t] = rand]
    /\ pc' = [pc EXCEPT ![t] = "store"]
    /\ UNCHANGED <<rand, useLock, lock, rets, left, seeded, lostSeen, Others>>

\* _lcg: the store _rand = ...
LcgStore(t) ==
    /\ pc[t] = "store"
    /\ rand' = _lcg(tmp[t])
    /\ pc' = [pc EXCEPT ![t] = "return"]
    /\ UNCHANGED <<useLock, lock, tmp, rets, left, seeded, lostSeen, Others>>

\* _lcg: return _rand, a second load of the global
LcgReturn(t) ==
    /\ pc[t] = "return"
    /\ rets' = Append(rets, rand)
    /\ left' = [left EXCEPT ![t] = @ - 1]
    /\ pc' = [pc EXCEPT ![t] = IF useLock THEN "release" ELSE "idle"]
    /\ UNCHANGED <<rand, useLock, lock, tmp, seeded, lostSeen, Others>>

\* The caller leaves the section after its draw.
Release(t) ==
    /\ pc[t] = "release"
    /\ lock' = 0
    /\ pc' = [pc EXCEPT ![t] = "idle"]
    /\ UNCHANGED <<rand, useLock, tmp, rets, left, seeded, lostSeen, Others>>

RoundDone == \A t \in Threads : left[t] = 0 /\ pc[t] = "idle"

\* The round's draws did not hand out the stream: the register is not
\* TotalDraws steps on, or one value was returned twice.
LostUpdate ==
    /\ RoundDone
    /\ \/ rand # Stream(seeded)[TotalDraws]
       \/ \E i, j \in 1..Len(rets) : i # j /\ rets[i] = rets[j]

\* Another round starts: the register is seeded, with or without the section.
NewRound(value, locked) ==
    /\ RoundDone
    /\ rand' = _seed(rand, value).rand
    /\ seeded' = value
    /\ useLock' = locked
    /\ lostSeen' = (lostSeen \/ (~useLock /\ LostUpdate))
    /\ rets' = <<>>
    /\ left' = [t \in Threads |-> DrawsPerThread]
    /\ UNCHANGED <<lock, pc, tmp, Others>>

ThreadNext ==
    \/ \E t \in Threads : Acquire(t)
    \/ \E t \in Threads : Enter(t)
    \/ \E t \in Threads : LcgLoad(t)
    \/ \E t \in Threads : LcgStore(t)
    \/ \E t \in Threads : LcgReturn(t)
    \/ \E t \in Threads : Release(t)
    \/ \E value \in ThreadSeeds, locked \in BOOLEAN : NewRound(value, locked)

SpecThreads == ThreadInit /\ [][ThreadNext]_vars

\* C10: with every draw inside one mutual-exclusion section, the values
\* returned are the successive stream values from the seeded register, each
\* handed out once, and after all N draws the register is N recurrence
\* steps on.  (That an update can be lost without the section is the
\* reachability of C10_Witness.)
C10_SerializedDraws ==
    useLock =>
        /\ Len(rets) <= TotalDraws
        /\ rets = SubSeq(Stream(seeded), 1, Len(rets))
        /\ RoundDone =>
              /\ Len(rets) = TotalDraws
              /\ rand = Stream(seeded)[TotalDraws]
              /\ rand = LcgN(seeded, TotalDraws)

\* A round with the section has handed out the stream, after a round without
\* it in which an update was lost.
C10_Witness ==
    /\ useLock /\ RoundDone /\ lostSeen
    /\ rets = SubSeq(Stream(seeded), 1, TotalDraws)
    /\ rand = Stream(seeded)[TotalDraws]

====
